---- MODULE Spec2Model ----
(***************************************************************************)
(* SentinelDownloader (sentinel_api/sentinel_api.py): one session object,  *)
(* the search service and the download service it talks to, and the local  *)
(* file system.  The server and the network are the environment: every     *)
(* response is chosen among the shapes the code distinguishes.             *)
(***************************************************************************)
EXTENDS Integers, Sequences, FiniteSets, TLC

VARIABLES
    scenes,            \* self.__scenes: the scene collection (list of dicts)
    geometries,        \* self.__geometries: list of WKT geometries
    download_dir,      \* self.__download_dir
    data_dirs,         \* self.__data_dirs
    disk,              \* regular files: path -> [size, zip]
    folders,           \* directories that exist
    pc,                \* "idle", "search", "download" or "exited"
    calls,             \* number of API calls made so far
    result,            \* how the last finished call ended
    geom_i,            \* search: position in the for loop over the geometries
    index,             \* search: start offset of the next page
    found,             \* search: local list `scenes` of the current geometry
    min_overlap,       \* search: the min_overlap argument, <<num, den>>
    requests,          \* search: the page requests issued by the running call,
                       \*   each with its geometry and the entries it got
    lastResp,          \* kind of the last response or outcome the call met
    scene_i,           \* download_all: position in the for loop over the scenes
    phase,             \* download_all: "requesting", "streaming" or "verifying"
    dl_dir,            \* download_all: local download_dir
    size,              \* download_all: Content-Length of the current response, 0
                       \*   while it has none (size is assigned before it is read)
    downloaded,        \* download_all: local list downloaded
    downloaded_failed, \* download_all: local list downloaded_failed
    attempted,         \* download_all: urls requested by the running call
    earlier            \* history: the paths verified by the download_all calls
                       \*   that returned, and whether search returned since

vars == <<scenes, geometries, download_dir, data_dirs, disk, folders, pc, calls,
          result, geom_i, index, found, min_overlap, requests, lastResp,
          scene_i, phase, dl_dir, size, downloaded, downloaded_failed, attempted,
          earlier>>

sessionVars == <<scenes, geometries, download_dir, data_dirs>>
searchVars == <<geom_i, index, found, min_overlap, requests>>
downloadVars == <<scene_i, phase, dl_dir, size, downloaded, downloaded_failed, attempted>>

----------------------------------------------------------------------------
(* Bounds of the model *)

\* API calls made on the session in one behaviour
MaxCalls == 5
\* scenes in a list handed to one of the filters
MaxListLen == 3
\* data directories registered when the existing-file filter is applied
MaxRegistered == 2
\* archives on disk when the existing-file filter is applied
MaxFiles == 2
\* merges into one collection
MaxMerges == 3
\* full pages the server serves for one geometry before it must send a short one
MaxPages == 2
\* API calls made against the catalogue with pages of results
MaxPagedCalls == 2
\* data directories registered in one behaviour
MaxDataDirs == 1

(* Constants of the program *)

\* rows=100, index += 100, len(subscenes) < 100
PageSize == 100
\* download_all: size < 1000000
TooSmall == 1000000
\* _is_valid(zipfile, minsize=1000000)
minsize == 1000000

----------------------------------------------------------------------------
(* Python values *)

None == "None"
NoSummary == [success |-> <<>>, failed |-> <<>>]

Returned(op, value) == [op |-> op, kind |-> "returned", exc |-> None, value |-> value]
Raised(op, exc) == [op |-> op, kind |-> "raised", exc |-> exc, value |-> NoSummary]

Range(seq) == {seq[i] : i \in DOMAIN seq}

----------------------------------------------------------------------------
(* Geometry: what spatialist computes from a WKT string.  A WKT geometry   *)
(* is [kind, parts]; the parts are named shapes with the areas below.      *)

Polygon(shape) == [kind |-> "POLYGON", parts |-> <<shape>>]
MultiPolygon(shapes) == [kind |-> "MULTIPOLYGON", parts |-> shapes]

G1 == Polygon("aoi_large")
G2 == Polygon("aoi_small")
\* a degenerate area of interest: a polygon without area
GFlat == Polygon("aoi_flat")

ShapeArea(shape) ==
    CASE shape = "aoi_large" -> 40
      [] shape = "aoi_small" -> 10
      [] shape = "fp_wide" -> 100
      [] shape = "fp_tile" -> 4
      [] shape = "fp_far" -> 100
      [] shape = "fp_flat" -> 0
      [] shape = "aoi_flat" -> 0
      [] OTHER -> 0

\* area the two shapes share; 0 with Intersects false is "no intersection"
ShapeIntersection(a, b) ==
    CASE {a, b} = {"aoi_large", "fp_wide"} -> 40
      [] {a, b} = {"aoi_small", "fp_wide"} -> 5
      [] {a, b} = {"aoi_large", "fp_tile"} -> 4
      [] OTHER -> 0

RECURSIVE SumAreas(_)
SumAreas(parts) == IF parts = <<>> THEN 0 ELSE ShapeArea(Head(parts)) + SumAreas(Tail(parts))

\* Vector.getArea()
getArea(wkt) == SumAreas(wkt.parts)

RECURSIVE SumIntersection(_, _)
SumIntersection(partsA, partsB) ==
    IF partsA = <<>> THEN 0
    ELSE LET a == Head(partsA)
             RECURSIVE Row(_)
             Row(bs) == IF bs = <<>> THEN 0 ELSE ShapeIntersection(a, Head(bs)) + Row(Tail(bs))
         IN  Row(partsB) + SumIntersection(Tail(partsA), partsB)

\* spatialist.vector.intersect: None when the geometries do not intersect
intersect(wkt1, wkt2) ==
    LET a == SumIntersection(wkt1.parts, wkt2.parts)
    IN  IF a = 0 THEN [none |-> TRUE, area |-> 0] ELSE [none |-> FALSE, area |-> a]

----------------------------------------------------------------------------
(* Python dicts: functions from keys to values *)

HasKey(d, k) == k \in DOMAIN d
SetKey(d, k, v) == [x \in DOMAIN d \cup {k} |-> IF x = k THEN v ELSE d[x]]
EmptyDict == [x \in {} |-> x]

Ok(val) == [exc |-> None, val |-> val]
Exc(name) == [exc |-> name, val |-> <<>>]

\* os.path.join(dir, scene['title'] + '.zip')
ZipPath(dir, scene) == <<dir, scene["title"], "zip">>

\* os.path.isfile
isfile(path) == path \in DOMAIN disk

----------------------------------------------------------------------------
(* The pure functions of the search pipeline *)

\* multipolygon2list: the polygons of a multipolygon, else the geometry itself
multipolygon2list(wkt) ==
    IF wkt.kind = "MULTIPOLYGON"
    THEN [i \in DOMAIN wkt.parts |-> Polygon(wkt.parts[i])]
    ELSE <<wkt>>

\* the dict _parse_json builds for one entry: id, title, url and the str fields
\* (a later field of the same name overwrites an earlier one)
RECURSIVE FlattenFields(_, _)
FlattenFields(item, fields) ==
    IF fields = <<>> THEN item
    ELSE FlattenFields(SetKey(item, Head(fields).name, Head(fields).content), Tail(fields))

ParseEntry(entry) ==
    FlattenFields([x \in {"id", "title", "url"} |->
                      CASE x = "id" -> entry.id
                        [] x = "title" -> entry.title
                        [] x = "url" -> entry.link[1].href],
                  entry.str)

\* _parse_json: KeyError when the object has no 'feed'; [] when the feed has no
\* 'entry'; a single entry object is wrapped into a list
_parse_json(obj) ==
    IF ~HasKey(obj, "feed") THEN Exc("KeyError")
    ELSE IF ~HasKey(obj["feed"], "entry") THEN Ok(<<>>)
    ELSE LET entry == obj["feed"]["entry"]
             list == IF entry.islist THEN entry.items ELSE <<entry.items[1]>>
         IN  Ok([i \in DOMAIN list |-> ParseEntry(list[i])])

\* the loop of _search_request over the parsed items: item['footprint'] becomes
\* the first polygon of the footprint; KeyError when an item has no footprint
NormalizeFootprints(items) ==
    IF \E i \in DOMAIN items : ~HasKey(items[i], "footprint") THEN Exc("KeyError")
    ELSE IF \E i \in DOMAIN items : multipolygon2list(items[i]["footprint"]) = <<>>
    THEN Exc("IndexError")
    ELSE Ok([i \in DOMAIN items |->
               SetKey(items[i], "footprint", multipolygon2list(items[i]["footprint"])[1])])

\* _search_request that raises for a non-2xx status instead of returning []
_search_request_RaisesForStatus(resp) ==
    IF resp.raises = "RequestException" THEN Ok(<<>>)
    ELSE IF resp.status \div 100 # 2 THEN Exc("HTTPError")
    ELSE IF resp.json = "RequestException" THEN Ok(<<>>)
    ELSE IF resp.json # "ok" THEN Exc(resp.json)
    ELSE LET parsed == _parse_json(resp.obj)
         IN  IF parsed.exc # None THEN parsed ELSE NormalizeFootprints(parsed.val)

\* _search_request: the list of scenes of one page.  RequestException (a network
\* failure, or the JSON error of a requests release that derives it from
\* RequestException) and a non-2xx status give []; anything else propagates
_search_request(resp) ==
    IF resp.raises = "RequestException" THEN Ok(<<>>)
    ELSE IF resp.status \div 100 # 2 THEN Ok(<<>>)
    ELSE IF resp.json = "RequestException" THEN Ok(<<>>)
    ELSE IF resp.json # "ok" THEN Exc(resp.json)
    ELSE LET parsed == _parse_json(resp.obj)
         IN  IF parsed.exc # None THEN parsed ELSE NormalizeFootprints(parsed.val)

\* _filter_existing: the scenes with no <title>.zip in any data dir or the download dir
FilterExistingIn(list, dirs) ==
    LET Missing(scene) == ~\E i \in DOMAIN dirs : isfile(ZipPath(dirs[i], scene))
    IN  SelectSeq(list, Missing)

\* _filter_existing that looks in the download directory only
_filter_existing_DownloadDirOnly(list) == FilterExistingIn(list, <<download_dir>>)

_filter_existing(list) == FilterExistingIn(list, data_dirs \o <<download_dir>>)

\* a / b > c / d for b, d > 0
FracGreater(a, b, c, d) == a * d > c * b

\* one iteration of the loop of _filter_overlap: "zero" when a division by zero
\* is evaluated, else whether the scene is kept, and its overlap as <<num, den>>
OverlapOf(scene, wkt_geometry, mo) ==
    LET site_area == getArea(wkt_geometry)
        footprint_area == getArea(scene["footprint"])
        inter == intersect(wkt_geometry, scene["footprint"])
        intersect_area == inter.area
        overlap == IF inter.none THEN <<0, 1>> ELSE <<intersect_area, site_area>>
    IN  IF ~inter.none /\ site_area = 0 THEN [zero |-> TRUE, keep |-> FALSE, overlap |-> overlap]
        ELSE IF FracGreater(overlap[1], overlap[2], mo[1], mo[2])
        THEN [zero |-> FALSE, keep |-> TRUE, overlap |-> overlap]
        ELSE IF footprint_area = 0 THEN [zero |-> TRUE, keep |-> FALSE, overlap |-> overlap]
        ELSE [zero |-> FALSE,
              keep |-> FracGreater(site_area, footprint_area, 1, 1)
                       /\ FracGreater(intersect_area, footprint_area, mo[1], mo[2]),
              overlap |-> overlap]

\* the loop of _filter_overlap: a division by zero in any iteration leaves the
\* function; else the kept scenes, each with its overlap * 100
FilterOverlapFrom(list, wkt_geometry, mo) ==
    LET Kept(scene) == OverlapOf(scene, wkt_geometry, mo).keep
        Annotated(scene) ==
            LET o == OverlapOf(scene, wkt_geometry, mo).overlap
            IN  SetKey(scene, "_script_overlap", <<o[1] * 100, o[2]>>)
        DividesByZero(scene) == OverlapOf(scene, wkt_geometry, mo).zero
        kept == SelectSeq(list, Kept)
    IN  IF SelectSeq(list, DividesByZero) # <<>>
        THEN Exc("ZeroDivisionError")
        ELSE Ok([i \in DOMAIN kept |-> Annotated(kept[i])])

\* _filter_overlap: the kept scenes, annotated with overlap * 100
_filter_overlap(list, wkt_geometry, mo) == FilterOverlapFrom(list, wkt_geometry, mo)

\* Unknown without the test of the id
Unknown_KeepsAll(scenes2, existing_ids) == scenes2

\* the second loop of _merge_scenes: the scenes whose id is not in existing_ids,
\* which is not extended while they are appended
Unknown(scenes2, existing_ids) ==
    LET New(scene) == scene["id"] \notin existing_ids
    IN  SelectSeq(scenes2, New)

\* _merge_scenes in which a scene of scenes2 replaces the stored scene of its id
_merge_scenes_NewerWins(scenes1, scenes2) ==
    LET Same(i) == {j \in DOMAIN scenes2 : scenes2[j]["id"] = scenes1[i]["id"]}
        Newest(i) == CHOOSE j \in Same(i) : \A k \in Same(i) : k <= j
    IN  [i \in DOMAIN scenes1 |-> IF Same(i) = {} THEN scenes1[i] ELSE scenes2[Newest(i)]]
        \o Unknown(scenes2, {scenes1[i]["id"] : i \in DOMAIN scenes1})

\* _merge_scenes that puts the new scenes first
_merge_scenes_NewFirst(scenes1, scenes2) ==
    Unknown(scenes2, {scenes1[i]["id"] : i \in DOMAIN scenes1}) \o scenes1

\* _merge_scenes: scenes1 followed by the scenes of scenes2 whose id is not in scenes1
_merge_scenes(scenes1, scenes2) ==
    scenes1 \o Unknown(scenes2, {scenes1[i]["id"] : i \in DOMAIN scenes1})

\* _format_url: rows=100, start=<startindex>, and the query of the geometry
_format_url(startindex, wkt_geometry) ==
    [rows |-> PageSize, start |-> startindex, q |-> wkt_geometry]

----------------------------------------------------------------------------
(* The search service: the responses a page request can get *)

Entry(id, title, footprint) ==
    [id |-> id, title |-> title, link |-> <<[href |-> id]>>,
     str |-> <<[name |-> "footprint", content |-> footprint]>>]

EntryA == Entry(1, 1, Polygon("fp_wide"))
EntryB == Entry(2, 2, MultiPolygon(<<"fp_tile", "fp_far">>))
EntryNoFootprint == [id |-> 1, title |-> 1, link |-> <<[href |-> 1]>>, str |-> <<>>]
Bulk(n) == Entry(1000 + n, 1000 + n, Polygon("fp_far"))

\* a page of n entries served at offset start: lead, then entries outside every geometry
BulkPage(start, lead, n) == [i \in 1..n |-> IF i = 1 THEN lead ELSE Bulk(start + i)]

Response(kind, raises, status, json, obj) ==
    [kind |-> kind, raises |-> raises, status |-> status, json |-> json, obj |-> obj]

Feed(kind, islist, items) ==
    Response(kind, None, 200, "ok", [feed |-> [entry |-> [islist |-> islist, items |-> items]]])

\* a 2xx response whose JSON object has no 'feed'
NoFeed == Response("nofeed", None, 200, "ok", EmptyDict)

ErrorKinds == {"network", "http"}
MalformedKinds == {"notjson", "nofeed", "nofootprint"}

\* the responses of a catalogue that holds less than a page of results
Responses ==
    {Response("network", "RequestException", 0, "ok", EmptyDict),
     Response("http", None, 500, "ok", EmptyDict),
     Response("notjson", None, 200, "ValueError", EmptyDict),
     Response("notjson", None, 200, "RequestException", EmptyDict),
     NoFeed,
     Response("empty", None, 200, "ok", [feed |-> EmptyDict]),
     Feed("single", FALSE, <<EntryA>>),
     Feed("list", TRUE, <<EntryA, EntryB>>),
     Feed("repeat", TRUE, <<EntryB, EntryA, EntryB>>),
     Feed("nofootprint", TRUE, <<EntryNoFootprint>>)}

\* the responses of a catalogue that holds pages of results: full pages at the
\* first MaxPages offsets, and at every offset a short page or a failure
PagedResponses(start) ==
    {Response("network", "RequestException", 0, "ok", EmptyDict),
     Response("http", None, 500, "ok", EmptyDict),
     Response("empty", None, 200, "ok", [feed |-> EmptyDict]),
     Feed("list", TRUE, <<EntryA, EntryB>>),
     Feed("short", TRUE, BulkPage(start, EntryB, 37))}
    \cup (IF start < MaxPages * PageSize
          THEN {Feed("full", TRUE, BulkPage(start, EntryA, PageSize))} ELSE {})

----------------------------------------------------------------------------
(* The session *)

Dirs == {"./", "archive"}
GBad == [kind |-> "INVALID", parts |-> <<>>]
NoResult == [op |-> None, kind |-> None, exc |-> None, value |-> NoSummary]

Init ==
    /\ scenes = <<>>
    /\ geometries = <<>>
    /\ download_dir = "./"
    /\ data_dirs = <<>>
    /\ disk = EmptyDict
    /\ folders = {"./"}
    /\ pc = "idle"
    /\ calls = 0
    /\ result = NoResult
    /\ geom_i = 0 /\ index = 0 /\ found = <<>> /\ min_overlap = <<1, 1000>>
    /\ requests = <<>> /\ lastResp = None
    /\ scene_i = 0 /\ phase = None /\ dl_dir = None /\ size = 0
    /\ downloaded = <<>> /\ downloaded_failed = <<>> /\ attempted = <<>>
    /\ earlier = [verified |-> {}, searched |-> FALSE]

\* a second SentinelDownloader of the process, on which nothing is called:
\* __init__ binds the url and the credentials only, so its other attributes are
\* the class attributes. The lists of lines 41 and 43 are the objects that
\* _merge_scenes and set_data_dir append to (lines 447 and 253), while
\* set_download_dir and set_geometries bind attributes of their own instance
Peer ==
    [scenes |-> scenes, data_dirs |-> data_dirs, download_dir |-> "./", geometries |-> <<>>]

\* get_scenes of the second instance
PeerGetScenes == Peer.scenes

\* line 332 in the second instance: the directories _filter_existing looks into
PeerFilterDirs == Peer.data_dirs \o <<Peer.download_dir>>

ResetSearch ==
    /\ geom_i' = 0 /\ index' = 0 /\ found' = <<>> /\ min_overlap' = <<1, 1000>>
    /\ requests' = <<>> /\ lastResp' = None

ResetDownload ==
    /\ scene_i' = 0 /\ phase' = None /\ dl_dir' = None /\ size' = 0
    /\ downloaded' = <<>> /\ downloaded_failed' = <<>> /\ attempted' = <<>>

\* a call begins: the caller is idle and has calls left
Begin == pc = "idle" /\ calls < MaxCalls /\ calls' = calls + 1

\* a call ends with outcome r; its locals are dropped when the caller goes on
Finish(r) == pc' = "done" /\ result' = r

\* the caller takes what the call returned and goes on; the example scripts
\* catch nothing, so a call that raised ends the script
Continue ==
    /\ pc = "done"
    /\ result.kind = "returned"
    /\ pc' = "idle"
    /\ result' = NoResult
    /\ ResetSearch /\ ResetDownload
    /\ UNCHANGED <<sessionVars, disk, folders, calls, earlier>>

\* set_geometries: a list is stored as it is, a string as a one-element list;
\* only the first geometry is tested, after the assignment
set_geometries(arg) ==
    /\ Begin
    /\ IF arg.type \notin {"list", "str"}
       THEN /\ Finish(Raised("set_geometries", "Exception"))
            /\ UNCHANGED geometries
       ELSE /\ geometries' = arg.value
            /\ Finish(IF arg.value = <<>> THEN Raised("set_geometries", "IndexError")
                      ELSE IF arg.value[1].kind = "INVALID"
                      THEN Raised("set_geometries", "Exception")
                      ELSE Returned("set_geometries", NoSummary))
    /\ UNCHANGED <<scenes, download_dir, data_dirs, disk, folders, searchVars, downloadVars,
                   lastResp, earlier>>

GeometryArgs ==
    {[type |-> "str", value |-> <<G1>>],
     [type |-> "list", value |-> <<G1, G2>>],
     [type |-> "list", value |-> <<G2, GBad>>],
     [type |-> "int", value |-> <<>>]}

\* set_data_dir: appends, also a directory that is already listed
set_data_dir(data_dir) ==
    /\ Begin
    /\ Len(data_dirs) < MaxDataDirs
    /\ data_dirs' = Append(data_dirs, data_dir)
    /\ Finish(Returned("set_data_dir", NoSummary))
    /\ UNCHANGED <<scenes, geometries, download_dir, disk, folders, searchVars, downloadVars,
                   lastResp, earlier>>

\* the effect of set_download_dir on the directories and on self.__download_dir
MakeDownloadDir(dir) ==
    /\ folders' = folders \cup {dir}
    /\ download_dir' = dir

set_download_dir(dir) ==
    /\ Begin
    /\ MakeDownloadDir(dir)
    /\ Finish(Returned("set_download_dir", NoSummary))
    /\ UNCHANGED <<scenes, geometries, data_dirs, disk, searchVars, downloadVars,
                   lastResp, earlier>>

----------------------------------------------------------------------------
(* search *)

Platforms == {"S1A*", "S1B*", "S2A*", "S2B*", "S3A*", "S3B*"}
DateFields == {"beginPosition", "endPosition", "ingestionDate"}

\* datetime.strptime(s, '%Y-%m-%d') succeeds
DateParses(s) == s = "2019-01-01"

DateArgs ==
    {[start_date |-> None, end_date |-> None, date_type |-> "beginPosition"],
     [start_date |-> "2019-01-01", end_date |-> None, date_type |-> "beginPosition"],
     [start_date |-> None, end_date |-> "2019-01-01", date_type |-> "beginPosition"],
     [start_date |-> "2019-01-01", end_date |-> "2019-01-01", date_type |-> "created"],
     [start_date |-> None, end_date |-> None, date_type |-> "created"],
     [start_date |-> "yesterday", end_date |-> None, date_type |-> "endPosition"]}

\* DateError without the check for the missing start date
DateError_EndAlone(d) ==
    IF d.start_date = None /\ d.end_date = None THEN None
    ELSE IF d.date_type \notin DateFields THEN "Exception"
    ELSE IF d.start_date # None /\ ~DateParses(d.start_date) THEN "ValueError"
    ELSE IF d.end_date # None /\ ~DateParses(d.end_date) THEN "ValueError"
    ELSE None

\* the checks of the date arguments, in the order of the code: the exception, or None
DateError(d) ==
    IF d.start_date = None /\ d.end_date = None THEN None
    ELSE IF d.start_date = None THEN "Exception"
    ELSE IF d.date_type \notin DateFields THEN "Exception"
    ELSE IF ~DateParses(d.start_date) THEN "ValueError"
    ELSE IF d.end_date # None /\ ~DateParses(d.end_date) THEN "ValueError"
    ELSE None

\* search returns to its caller
SearchReturns ==
    /\ Finish(Returned("search", NoSummary))
    /\ earlier' = [earlier EXCEPT !.searched = TRUE]

\* search ends with an exception
SearchRaises(exc) ==
    /\ Finish(Raised("search", exc))
    /\ UNCHANGED earlier

\* search, up to the loop over the geometries
search(platform, mo, dir, dates) ==
    /\ Begin
    /\ UNCHANGED <<scenes, geometries, data_dirs, disk, downloadVars>>
    /\ requests' = <<>> /\ lastResp' = None /\ found' = <<>> /\ index' = 0
    /\ IF platform \notin Platforms
       THEN /\ SearchRaises("Exception")
            /\ UNCHANGED <<download_dir, folders, geom_i, min_overlap>>
       ELSE /\ IF dir # None THEN MakeDownloadDir(dir) ELSE UNCHANGED <<download_dir, folders>>
            /\ IF DateError(dates) # None
               THEN /\ SearchRaises(DateError(dates))
                    /\ UNCHANGED <<geom_i, min_overlap>>
               ELSE /\ min_overlap' = mo
                    /\ IF geometries = <<>>
                       THEN SearchReturns /\ geom_i' = 0
                       ELSE pc' = "search" /\ geom_i' = 1 /\ UNCHANGED <<result, earlier>>

\* lines 234-239: the scenes of one geometry are filtered and merged
FilterAndMerge(all, geom) ==
    IF Len(all) > 0
    THEN LET kept == _filter_overlap(_filter_existing(all), geom, min_overlap)
         IN  IF kept.exc # None THEN kept ELSE Ok(_merge_scenes(scenes, kept.val))
    ELSE Ok(scenes)

\* LastPage that leaves the loop only after an empty page
LastPage_OnlyWhenEmpty(subscenes) == Len(subscenes) = 0

\* the condition that leaves the while loop
LastPage(subscenes) == Len(subscenes) < PageSize

\* NextIndex that counts pages instead of entries
NextIndex_ByOne(subscenes) == IF Len(subscenes) > 0 THEN index + 1 ELSE index

\* the start offset after a page
NextIndex(subscenes) == IF Len(subscenes) > 0 THEN index + PageSize ELSE index

\* the entry of the request log: the url, the geometry it is for, the entries it got
Requested(url, got) == [url |-> url, geom |-> geom_i, got |-> got]

\* one iteration of the while loop of search: a page is requested; after a
\* short page the geometry is finished and the for loop goes on
SearchPage(resp) ==
    /\ pc = "search"
    /\ UNCHANGED <<geometries, download_dir, data_dirs, disk, folders, calls,
                   min_overlap, downloadVars>>
    /\ \E geom \in {geometries[geom_i]}, page \in {_search_request(resp)} :
       \E all \in {found \o page.val} :
       IF geom.kind = "INVALID"
       THEN /\ SearchRaises("RuntimeError")
            /\ lastResp' = "invalid geometry"
            /\ UNCHANGED <<scenes, geom_i, index, found, requests>>
       ELSE /\ requests' = Append(requests, Requested(_format_url(index, geom), Len(page.val)))
            /\ lastResp' = resp.kind
            /\ IF page.exc # None
               THEN /\ SearchRaises(page.exc)
                    /\ UNCHANGED <<scenes, geom_i, index, found>>
               ELSE IF ~LastPage(page.val)
               THEN /\ found' = all
                    /\ index' = NextIndex(page.val)
                    /\ UNCHANGED <<scenes, geom_i, pc, result, earlier>>
               ELSE \E merged \in {FilterAndMerge(all, geom)} :
                    IF merged.exc # None
                    THEN /\ SearchRaises(merged.exc)
                         /\ found' = all
                         /\ index' = NextIndex(page.val)
                         /\ UNCHANGED <<scenes, geom_i>>
                    ELSE /\ scenes' = merged.val
                         /\ geom_i' = geom_i + 1
                         /\ IF geom_i = Len(geometries)
                            THEN /\ SearchReturns
                                 /\ found' = all
                                 /\ index' = NextIndex(page.val)
                            ELSE /\ found' = <<>>
                                 /\ index' = 0
                                 /\ UNCHANGED <<pc, result, earlier>>

----------------------------------------------------------------------------
(* download_all *)

Remove(files, path) == [p \in DOMAIN files \ {path} |-> files[p]]
Write(files, path, file) == [p \in DOMAIN files \cup {path} |-> IF p = path THEN file ELSE files[p]]

Summary == [success |-> downloaded, failed |-> downloaded_failed]

\* _is_valid that accepts a file of exactly minsize bytes
_is_valid_AtLeast(file) ==
    IF file.size < minsize THEN "invalid"
    ELSE CASE file.zip = "good" -> "valid"
           [] file.zip = "corrupt" -> "invalid"
           [] OTHER -> "raises"

\* _is_valid: "invalid" for a file not larger than minsize or a corrupt archive,
\* "raises" when the archive test fails with an error the function does not catch
_is_valid(file) ==
    IF ~(file.size > minsize) THEN "invalid"
    ELSE CASE file.zip = "good" -> "valid"
           [] file.zip = "corrupt" -> "invalid"
           [] OTHER -> "raises"

\* download_all returns its summary
DownloadReturns(success, failed) ==
    /\ Finish(Returned("download_all", [success |-> success, failed |-> failed]))
    /\ earlier' = [verified |-> earlier.verified \cup Range(success), searched |-> FALSE]

\* download_all ends with an exception
DownloadRaises(exc) ==
    /\ Finish(Raised("download_all", exc))
    /\ UNCHANGED earlier

\* download_all that stores its download_dir argument in the session
download_all_StoresDir(dir) ==
    /\ Begin
    /\ UNCHANGED <<scenes, geometries, data_dirs, disk, folders, searchVars>>
    /\ download_dir' = IF dir = None THEN download_dir ELSE dir
    /\ dl_dir' = IF dir = None THEN download_dir ELSE dir
    /\ downloaded' = <<>> /\ downloaded_failed' = <<>> /\ attempted' = <<>> /\ size' = 0
    /\ lastResp' = None
    /\ IF scenes = <<>>
       THEN /\ DownloadReturns(<<>>, <<>>)
            /\ scene_i' = 0 /\ phase' = None
       ELSE /\ pc' = "download" /\ scene_i' = 1 /\ phase' = "requesting"
            /\ UNCHANGED <<result, earlier>>

\* download_all, up to the loop over the scenes
download_all(dir) ==
    /\ Begin
    /\ UNCHANGED <<sessionVars, disk, folders, searchVars>>
    /\ dl_dir' = IF dir = None THEN download_dir ELSE dir
    /\ downloaded' = <<>> /\ downloaded_failed' = <<>> /\ attempted' = <<>> /\ size' = 0
    /\ lastResp' = None
    /\ IF scenes = <<>>
       THEN /\ DownloadReturns(<<>>, <<>>)
            /\ scene_i' = 0 /\ phase' = None
       ELSE /\ pc' = "download" /\ scene_i' = 1 /\ phase' = "requesting"
            /\ UNCHANGED <<result, earlier>>

\* the loop goes on with the next scene, or download_all returns its summary
NextScene(success, failed) ==
    /\ downloaded' = success
    /\ downloaded_failed' = failed
    /\ IF scene_i = Len(scenes)
       THEN /\ DownloadReturns(success, failed)
            /\ UNCHANGED <<scene_i, phase>>
       ELSE /\ scene_i' = scene_i + 1
            /\ phase' = "requesting"
            /\ UNCHANGED <<pc, result, earlier>>

DownloadResponses ==
    {[kind |-> "connection", raises |-> "ConnectionError", header |-> FALSE, length |-> 0],
     [kind |-> "noheader", raises |-> None, header |-> FALSE, length |-> 0],
     [kind |-> "length", raises |-> None, header |-> TRUE, length |-> TooSmall - 1],
     [kind |-> "length", raises |-> None, header |-> TRUE, length |-> TooSmall],
     [kind |-> "length", raises |-> None, header |-> TRUE, length |-> TooSmall + 1]}

\* SkippedForLength with the size check one byte off
SkippedForLength_OneOff(resp) == ~resp.header \/ resp.length < TooSmall - 1

\* lines 79-87: the response is skipped for its missing or too small Content-Length
SkippedForLength(resp) == ~resp.header \/ resp.length < TooSmall

\* lines 68-87: the request of one scene and the checks of its Content-Length
DownloadRequest(resp) ==
    /\ pc = "download" /\ phase = "requesting"
    /\ UNCHANGED <<sessionVars, disk, folders, calls, searchVars, dl_dir>>
    /\ attempted' = Append(attempted, scenes[scene_i]["url"])
    /\ lastResp' = resp.kind
    /\ size' = IF resp.raises = None /\ resp.header THEN resp.length ELSE 0
    /\ IF resp.raises = "ConnectionError" \/ SkippedForLength(resp)
       THEN NextScene(downloaded, downloaded_failed)
       ELSE /\ phase' = "streaming"
            /\ UNCHANGED <<pc, result, scene_i, downloaded, downloaded_failed, earlier>>

StreamOutcomes ==
    {[raises |-> None, zip |-> "good"],
     [raises |-> None, zip |-> "corrupt"],
     [raises |-> None, zip |-> "unreadable"],
     [raises |-> "ConnectionError", zip |-> "corrupt"],
     [raises |-> "KeyboardInterrupt", zip |-> "corrupt"]}

\* the file a broken stream leaves behind
PartialFile == [size |-> 0, zip |-> "corrupt"]

\* StreamHandler without the os.remove of the interrupted download
StreamHandler_KeepsFile(exc, path) ==
    /\ disk' = Write(disk, path, PartialFile)
    /\ IF exc = "KeyboardInterrupt"
       THEN /\ pc' = "exited"
            /\ result' = [op |-> "download_all", kind |-> "exit", exc |-> "SystemExit",
                          value |-> NoSummary]
            /\ UNCHANGED earlier
       ELSE DownloadRaises(exc)

\* lines 105-108 and the missing handlers: what an exception raised while the
\* body is streamed into the open file leads to
StreamHandler(exc, path) ==
    IF exc = "KeyboardInterrupt"
    THEN /\ disk' = Remove(disk, path)
         /\ pc' = "exited"
         /\ result' = [op |-> "download_all", kind |-> "exit", exc |-> "SystemExit",
                       value |-> NoSummary]
         /\ UNCHANGED earlier
    ELSE /\ disk' = Write(disk, path, PartialFile)
         /\ DownloadRaises(exc)

\* lines 96-108: the file is opened for writing and the body is streamed into it
DownloadStream(out) ==
    /\ pc = "download" /\ phase = "streaming"
    /\ UNCHANGED <<sessionVars, folders, calls, searchVars, dl_dir, size, attempted,
                   downloaded, downloaded_failed, scene_i>>
    /\ LET path == ZipPath(dl_dir, scenes[scene_i])
       IN  IF dl_dir \notin folders
           THEN /\ DownloadRaises("FileNotFoundError")
                /\ lastResp' = "FileNotFoundError"
                /\ UNCHANGED <<disk, phase>>
           ELSE IF out.raises # None
           THEN /\ StreamHandler(out.raises, path)
                /\ lastResp' = out.raises
                /\ UNCHANGED phase
           ELSE /\ disk' = Write(disk, path, [size |-> size, zip |-> out.zip])
                /\ lastResp' = "streamed"
                /\ phase' = "verifying"
                /\ UNCHANGED <<pc, result, earlier>>

\* lines 118-119: the file is valid
ValidFile(path) ==
    /\ NextScene(Append(downloaded, path), downloaded_failed)
    /\ UNCHANGED disk

\* InvalidFile without the os.remove
InvalidFile_KeepsFile(path) ==
    /\ NextScene(downloaded, Append(downloaded_failed, path))
    /\ UNCHANGED disk

\* lines 114-117: the file is not valid
InvalidFile(path) ==
    /\ NextScene(downloaded, Append(downloaded_failed, path))
    /\ disk' = Remove(disk, path)

\* lines 110-119: the written file is verified
DownloadVerify ==
    /\ pc = "download" /\ phase = "verifying"
    /\ UNCHANGED <<sessionVars, folders, calls, searchVars, dl_dir, size, attempted>>
    /\ LET path == ZipPath(dl_dir, scenes[scene_i])
           valid == _is_valid(disk[path])
       IN  /\ lastResp' = valid
           /\ CASE valid = "valid" -> ValidFile(path)
                [] valid = "invalid" -> InvalidFile(path)
                [] OTHER ->
                     /\ DownloadRaises("RuntimeError")
                     /\ UNCHANGED <<disk, scene_i, phase, downloaded, downloaded_failed>>

----------------------------------------------------------------------------

Next ==
    \/ \E arg \in GeometryArgs : set_geometries(arg)
    \/ \E dir \in Dirs : set_data_dir(dir)
    \/ \E dir \in Dirs : set_download_dir(dir)
    \/ \E platform \in {"S1A*", "S9Z*"}, mo \in {<<1, 1000>>, <<1, 2>>},
          dir \in {None, "archive"}, dates \in DateArgs :
          search(platform, mo, dir, dates)
    \/ \E resp \in Responses : SearchPage(resp)
    \/ \E dir \in {None, "archive"} : download_all(dir)
    \/ \E resp \in DownloadResponses : DownloadRequest(resp)
    \/ \E out \in StreamOutcomes : DownloadStream(out)
    \/ DownloadVerify
    \/ Continue

Spec == Init /\ [][Next]_vars

\* the session against a catalogue with pages of results: the geometries are
\* set and searched
PagedSetGeometries ==
    /\ calls < MaxPagedCalls
    /\ \E arg \in {a \in GeometryArgs : a.type # "int" /\ GBad \notin Range(a.value)} :
          set_geometries(arg)

PagedSearch ==
    /\ calls < MaxPagedCalls
    /\ \E mo \in {<<1, 1000>>, <<1, 2>>} :
          search("S1A*", mo, None, [start_date |-> None, end_date |-> None,
                                    date_type |-> "beginPosition"])

\* the answer to a page request: a body without 'feed', or one of PagedResponses
PagedSearchPage ==
    \/ SearchPage(NoFeed)
    \/ \E resp \in PagedResponses(index) : SearchPage(resp)

PagedNext == PagedSetGeometries \/ PagedSearch \/ PagedSearchPage \/ Continue

PagedSpec == Init /\ [][PagedNext]_vars

\* search is a blocking loop: while it runs, its next request is issued
PagedFairSpec == PagedSpec /\ WF_vars(PagedSearchPage)

----------------------------------------------------------------------------
(* The filters on their own: the arguments are drawn, the function is applied *)

\* the scene _search_request yields for an entry with this id and footprint
SceneOf(id, footprint) ==
    NormalizeFootprints(_parse_json(Feed("single", FALSE, <<Entry(id, id, footprint)>>).obj).val).val[1]

\* the lists of at most n elements of S
RECURSIVE ListsUpTo(_, _)
ListsUpTo(S, n) ==
    IF n = 0 THEN {<<>>}
    ELSE LET shorter == ListsUpTo(S, n - 1)
         IN  shorter \cup {Append(l, x) : l \in {k \in shorter : Len(k) = n - 1}, x \in S}

\* the state of a session whose locals hold the arguments list, geoms, mo
Arguments(list, geoms, mo, coll, ddirs, ddir, files) ==
    /\ scenes = coll
    /\ geometries = geoms
    /\ download_dir = ddir
    /\ data_dirs = ddirs
    /\ disk = files
    /\ folders = {"./"}
    /\ pc = "idle"
    /\ calls = 0
    /\ result = NoResult
    /\ geom_i = 1 /\ index = 0 /\ found = list /\ min_overlap = mo
    /\ requests = <<>> /\ lastResp = None
    /\ scene_i = 0 /\ phase = None /\ dl_dir = None /\ size = 0
    /\ downloaded = <<>> /\ downloaded_failed = <<>> /\ attempted = <<>>
    /\ earlier = [verified |-> {}, searched |-> FALSE]

\* a function was applied to the arguments: its value or its exception is the result
Applied(op, out) ==
    /\ pc = "idle"
    /\ Finish(IF out.exc # None THEN Raised(op, out.exc) ELSE Returned(op, out.val))
    /\ UNCHANGED <<sessionVars, disk, folders, calls, searchVars, lastResp, downloadVars,
                   earlier>>

OverlapScenes ==
    {SceneOf(1, Polygon("fp_wide")), SceneOf(2, Polygon("fp_tile")),
     SceneOf(3, Polygon("fp_far")), SceneOf(4, Polygon("fp_flat"))}

OverlapInit ==
    \E list \in ListsUpTo(OverlapScenes, MaxListLen), geom \in {G1, G2, GFlat},
       mo \in {<<1, 1000>>, <<1, 2>>} :
        Arguments(list, <<geom>>, mo, <<>>, <<>>, "./", EmptyDict)

ApplyFilterOverlap ==
    Applied("_filter_overlap", _filter_overlap(found, geometries[geom_i], min_overlap))

OverlapSpec == OverlapInit /\ [][ApplyFilterOverlap]_vars

\* the directories archives are kept in; "mirror" is also used unregistered
ArchiveDirs == {"./", "archive", "mirror"}

ExistingScenes == {SceneOf(1, Polygon("fp_wide")), SceneOf(2, Polygon("fp_tile"))}

\* an archive that was downloaded and verified
StoredFile == [size |-> minsize + 1, zip |-> "good"]

\* the file systems with at most n archives of the scenes of S
RECURSIVE DisksUpTo(_, _)
DisksUpTo(S, n) ==
    IF n = 0 THEN {EmptyDict}
    ELSE LET fewer == DisksUpTo(S, n - 1)
         IN  fewer \cup {Write(files, ZipPath(dir, scene), StoredFile) :
                           files \in fewer, dir \in ArchiveDirs, scene \in S}

ExistingInit ==
    \E list \in ListsUpTo(ExistingScenes, MaxListLen),
       ddirs \in ListsUpTo(ArchiveDirs, MaxRegistered),
       ddir \in {"./", "archive"},
       files \in DisksUpTo(ExistingScenes, MaxFiles) :
        Arguments(list, <<G1>>, <<1, 1000>>, <<>>, ddirs, ddir, files)

ApplyFilterExisting == Applied("_filter_existing", Ok(_filter_existing(found)))

ExistingSpec == ExistingInit /\ [][ApplyFilterExisting]_vars

\* the scenes with the ids 1000 + first .. 1000 + last
Run(first, last) ==
    [i \in 1..(last - first + 1) |-> SceneOf(1000 + first + i - 1, Polygon("fp_far"))]

\* the lists merged into the collection: short lists, one with an id twice, one
\* with a different scene under the id 1, and two long lists that share 5 ids
MergeLists ==
    {<<SceneOf(1, Polygon("fp_wide"))>>,
     <<SceneOf(1, Polygon("fp_tile"))>>,
     <<SceneOf(1, Polygon("fp_wide")), SceneOf(2, Polygon("fp_tile"))>>,
     <<SceneOf(2, Polygon("fp_tile")), SceneOf(3, Polygon("fp_far")), SceneOf(2, Polygon("fp_tile"))>>,
     Run(1, 80),
     Run(76, 95)}

\* line 239: self.__scenes = self._merge_scenes(self.__scenes, scenes)
ApplyMergeScenes(list) ==
    /\ pc = "idle"
    /\ calls < MaxMerges
    /\ calls' = calls + 1
    /\ found' = list
    /\ scenes' = _merge_scenes(scenes, list)
    /\ result' = Returned("_merge_scenes", _merge_scenes(scenes, list))
    /\ UNCHANGED <<geometries, download_dir, data_dirs, disk, folders, pc, geom_i, index,
                   min_overlap, requests, lastResp, downloadVars, earlier>>

MergeNext == \E list \in MergeLists : ApplyMergeScenes(list)

MergeSpec == Init /\ [][MergeNext]_vars

----------------------------------------------------------------------------
(* Claims about download_all *)

\* the path download_all writes the current scene to
CurrentPath == ZipPath(dl_dir, scenes[scene_i])

\* after the current scene the loop is at the next scene, or download_all has
\* returned the summary of its two lists
LoopGoesOn ==
    IF scene_i < Len(scenes)
    THEN pc' = "download" /\ scene_i' = scene_i + 1 /\ phase' = "requesting"
    ELSE /\ pc' = "done"
         /\ result' = Returned("download_all",
                               [success |-> downloaded', failed |-> downloaded_failed'])

\* C2: a scene whose archive an earlier download_all of the session downloaded
\* and verified is not requested again by a download_all that follows a new
\* search
C2_RetrySkipsDownloaded ==
    [][(pc = "download" /\ phase = "requesting" /\ attempted' # attempted
        /\ earlier.searched)
       => ~(CurrentPath \in earlier.verified /\ isfile(CurrentPath))]_vars

\* C3: a streamed file that fails verification (not larger than 1,000,000
\* bytes, or a corrupt archive) is deleted and its path is appended to 'failed'
\* only; a file that passes is kept and its path is appended to 'success' only;
\* either way the loop goes on with the next scene
C3_VerifiedOrRemoved ==
    [][(pc = "download" /\ phase = "verifying")
       => LET file == disk[CurrentPath]
          IN  /\ (file.size <= 1000000 \/ file.zip = "corrupt")
                 => /\ CurrentPath \notin DOMAIN disk'
                    /\ downloaded_failed' = Append(downloaded_failed, CurrentPath)
                    /\ downloaded' = downloaded
                    /\ LoopGoesOn
              /\ (file.size > 1000000 /\ file.zip = "good")
                 => /\ CurrentPath \in DOMAIN disk' /\ disk' = disk
                    /\ downloaded' = Append(downloaded, CurrentPath)
                    /\ downloaded_failed' = downloaded_failed
                    /\ LoopGoesOn]_vars

\* download_all has returned a summary with one verified file, which is on
\* disk, and one file that failed verification, which is not
C3_Witness ==
    /\ pc = "done" /\ result.op = "download_all" /\ result.kind = "returned"
    /\ Len(result.value.success) = 1 /\ Len(result.value.failed) = 1
    /\ isfile(result.value.success[1])
    /\ ~isfile(result.value.failed[1])
    /\ lastResp = "invalid"

\* C4: download_all never ends with the connection failure of one scene
C4_ConnectionFailureNeverAborts ==
    ~(result.op = "download_all" /\ result.kind = "raised" /\ result.exc = "ConnectionError")

\* C5: a response without Content-Length, or with one below 1,000,000, is
\* skipped before anything is written: the files and the two lists stay as
\* they are and the loop goes on with the next scene
C5_SkippedBeforeWriting ==
    [][(pc = "download" /\ phase = "requesting"
        /\ (lastResp' = "noheader" \/ (lastResp' = "length" /\ size' < 1000000)))
       => /\ disk' = disk
          /\ downloaded' = downloaded
          /\ downloaded_failed' = downloaded_failed
          /\ LoopGoesOn]_vars

\* a scene with a Content-Length of 999,999 was skipped after an earlier scene
\* was downloaded: its file does not exist, and the loop is at the next scene
C5_Witness ==
    /\ pc = "download" /\ phase = "requesting" /\ scene_i = 3
    /\ lastResp = "length" /\ size = 999999
    /\ Len(downloaded) = 1 /\ downloaded_failed = <<>>
    /\ ~isfile(ZipPath(dl_dir, scenes[2]))

\* C6: a user interruption while a body is streamed removes the file of that
\* scene and ends the run: nothing is requested or verified, no summary is
\* returned, and nothing happens afterwards
C6_InterruptEndsRun ==
    [][/\ (pc = "download" /\ phase = "streaming" /\ lastResp' = "KeyboardInterrupt")
          => /\ CurrentPath \notin DOMAIN disk'
             /\ pc' = "exited" /\ result'.kind = "exit"
             /\ attempted' = attempted /\ phase' = phase /\ scene_i' = scene_i
             /\ downloaded' = downloaded /\ downloaded_failed' = downloaded_failed
       /\ pc = "exited" => FALSE]_vars

\* the run was interrupted while the first of several scenes was streamed
C6_Witness ==
    /\ pc = "exited" /\ lastResp = "KeyboardInterrupt"
    /\ scene_i = 1 /\ Len(scenes) > 1 /\ Len(attempted) = 1
    /\ ~isfile(CurrentPath)

----------------------------------------------------------------------------
(* Claims about search *)

\* C1: the scene collection never holds two entries with the same id
C1_NoDuplicateIds ==
    \A i, j \in DOMAIN scenes : i # j => scenes[i]["id"] # scenes[j]["id"]

\* the requests of the running call that are for geometry g, and the number of
\* entries they got
RequestsOf(g) == {i \in DOMAIN requests : requests[i].geom = g}

RECURSIVE GotUpTo(_, _)
GotUpTo(g, n) ==
    IF n = 0 THEN 0
    ELSE (IF requests[n].geom = g THEN requests[n].got ELSE 0) + GotUpTo(g, n - 1)

GotOf(g) == GotUpTo(g, Len(requests))

\* the geometry the running call, or the call that just ended, requested last
LastGeom == requests[Len(requests)].geom

\* C7, in the states: a request that got fewer than 100 entries is the last
\* request for its geometry
C7_ShortPageIsLast ==
    \A i \in DOMAIN requests :
        requests[i].got < 100
        => /\ i < Len(requests) => requests[i + 1].geom > requests[i].geom
           /\ i = Len(requests) => pc = "done" \/ geom_i > requests[i].geom

\* C7, in the steps: a first page with no entries is the only request for its
\* geometry and adds no scene
C7_EmptyFirstPage ==
    (pc = "search" /\ index = 0 /\ Len(requests') = Len(requests) + 1
     /\ requests'[Len(requests')].got = 0 /\ result'.kind # "raised")
    => /\ scenes' = scenes
       /\ Cardinality({i \in DOMAIN requests' : requests'[i].geom = geom_i}) = 1
       /\ pc' = "done" \/ geom_i' = geom_i + 1

\* C7: the pagination of a geometry stops right after the first page with
\* fewer than 100 entries, also when it is the first page (no results: one
\* request, no scene); with a server that ends every geometry with such a
\* page, search terminates
C7_PaginationStops ==
    /\ []C7_ShortPageIsLast
    /\ [][C7_EmptyFirstPage]_vars
    /\ (pc = "search" ~> pc = "done")

\* a search of two geometries has returned: the first got a full and an empty
\* page, the second an empty first page
C7_Witness ==
    /\ pc = "done" /\ result.op = "search" /\ result.kind = "returned"
    /\ Len(requests) = 3
    /\ requests[1].got = 100 /\ requests[2].got = 0 /\ requests[3].got = 0
    /\ requests[2].geom = 1 /\ requests[3].geom = 2
    /\ found = <<>>

\* C8: the requests of a geometry ask for 100 rows at the offsets 0, 100,
\* 200, ..., one request per offset; the entries of every page are collected;
\* when search has returned, every geometry got its full pages and one more
\* request
C8_OffsetsAndCounts ==
    /\ \A i \in DOMAIN requests :
          /\ requests[i].url.rows = 100
          /\ requests[i].url.start
                = 100 * Cardinality({j \in RequestsOf(requests[i].geom) : j < i})
    /\ (pc = "search" /\ geom_i <= Len(geometries)) => Len(found) = GotOf(geom_i)
    /\ (pc = "done" /\ result.op = "search" /\ result.kind = "returned" /\ requests # <<>>)
       => /\ Len(found) = GotOf(LastGeom)
          /\ \A g \in DOMAIN geometries :
                Cardinality(RequestsOf(g))
                   = Cardinality({i \in RequestsOf(g) : requests[i].got >= 100}) + 1

\* two geometries, each with a page of 100 and a page of 37 entries: 4 requests
\* and 274 entries
C8_Witness ==
    /\ pc = "done" /\ result.op = "search" /\ result.kind = "returned"
    /\ Len(geometries) = 2 /\ Len(requests) = 4
    /\ [i \in 1..4 |-> requests[i].got] = <<100, 37, 100, 37>>
    /\ [i \in 1..4 |-> requests[i].url.start] = <<0, 100, 0, 100>>
    /\ GotOf(1) + GotOf(2) = 274

\* C9: a page request that fails (no 2xx status, or a network failure) ends
\* like an empty page: it is logged with no entries and not repeated, the
\* entries of the earlier pages of the geometry are filtered and merged, and
\* search goes on with the next geometry or returns
C9_ErrorLikeEmptyPage ==
    [][(pc = "search" /\ Len(requests') = Len(requests) + 1
        /\ lastResp' \in ErrorKinds \cup {"empty"})
       => LET merged == FilterAndMerge(found, geometries[geom_i])
          IN  /\ requests'[Len(requests')].got = 0
              /\ requests'[Len(requests')].geom = geom_i
              /\ IF merged.exc # None
                 THEN pc' = "done" /\ result' = Raised("search", merged.exc)
                 ELSE /\ scenes' = merged.val
                      /\ geom_i' = geom_i + 1
                      /\ IF geom_i = Len(geometries)
                         THEN pc' = "done" /\ result' = Returned("search", NoSummary)
                         ELSE pc' = "search" /\ index' = 0 /\ found' = <<>>]_vars

\* the second page of the first geometry failed after a full first page: the
\* scene of the first page is in the collection and search is at the second
\* geometry
C9_Witness ==
    /\ pc = "search" /\ geom_i = 2 /\ lastResp \in ErrorKinds
    /\ Len(requests) = 2
    /\ requests[1].got = 100 /\ requests[2].got = 0 /\ requests[2].geom = 1
    /\ \E i \in DOMAIN scenes : scenes[i]["id"] = 1

----------------------------------------------------------------------------
(* Claims about the filters *)

\* the areas the rule of the overlap filter is stated in
AoiArea == getArea(geometries[geom_i])
FootprintArea(scene) == getArea(scene["footprint"])
IntersectionArea(scene) == SumIntersection(geometries[geom_i].parts, scene["footprint"].parts)

\* num / den > min_overlap, a quotient by zero being no match
RatioAbove(num, den) == den > 0 /\ num * min_overlap[2] > min_overlap[1] * den

\* the rule of the overlap filter
Matches(scene) ==
    \/ RatioAbove(IntersectionArea(scene), AoiArea)
    \/ (FootprintArea(scene) > 0 /\ AoiArea > FootprintArea(scene)
        /\ RatioAbove(IntersectionArea(scene), FootprintArea(scene)))

\* the scene as it was before it was annotated
Unannotated(scene) == [k \in DOMAIN scene \ {"_script_overlap"} |-> scene[k]]

\* C11: _filter_overlap returns the scenes that match the rule (intersection /
\* aoi > min_overlap, or aoi / footprint > 1 and intersection / footprint >
\* min_overlap), in their input order, each annotated with intersection / aoi
\* * 100, for every area of interest, footprint and min_overlap
C11_KeepsIffOverlap ==
    (pc = "done" /\ result.op = "_filter_overlap")
    => /\ result.kind = "returned"
       /\ LET kept == result.value
              expected == SelectSeq(found, Matches)
          IN  /\ Len(kept) = Len(expected)
              /\ \A i \in DOMAIN kept :
                    /\ Unannotated(kept[i]) = expected[i]
                    /\ kept[i]["_script_overlap"][1] * AoiArea
                          = IntersectionArea(expected[i]) * 100 * kept[i]["_script_overlap"][2]

\* C11 for the arguments without a degenerate footprint
C11_PositiveAreas ==
    (pc = "done" /\ result.op = "_filter_overlap"
     /\ \A i \in DOMAIN found : FootprintArea(found[i]) > 0)
    => C11_KeepsIffOverlap

\* C12: a scene whose footprint or area of interest has no area is dropped;
\* _filter_overlap does not end with a division by zero
C12_ZeroAreaIsNoMatch ==
    (pc = "done" /\ result.op = "_filter_overlap")
    => /\ result.kind = "returned"
       /\ \A i \in DOMAIN result.value :
             FootprintArea(result.value[i]) > 0 /\ AoiArea > 0

\* the directories registered with the session
Registered == Range(data_dirs) \cup {download_dir}

\* <title>.zip of the scene is a regular file in a registered directory
Downloaded(scene) == \E dir \in Registered : ZipPath(dir, scene) \in DOMAIN disk

\* l without the elements at the positions in drop
RECURSIVE Without(_, _)
Without(l, drop) ==
    IF l = <<>> THEN <<>>
    ELSE LET rest == Without(SubSeq(l, 1, Len(l) - 1), drop)
         IN  IF Len(l) \in drop THEN rest ELSE Append(rest, l[Len(l)])

\* C13: _filter_existing drops exactly the scenes whose <title>.zip is a
\* regular file in the download directory or a data directory, and keeps the
\* other scenes in their order
C13_DropsExactlyExisting ==
    (pc = "done" /\ result.op = "_filter_existing")
    => /\ result.kind = "returned"
       /\ result.value = Without(found, {i \in DOMAIN found : Downloaded(found[i])})

\* of two scenes the first was dropped for an archive that is in a data
\* directory only, the second was kept though its archive is in a directory
\* that is not registered
C13_Witness ==
    /\ pc = "done" /\ result.op = "_filter_existing"
    /\ Len(found) = 2 /\ result.value = <<found[2]>>
    /\ Len(data_dirs) = 2 /\ "mirror" \notin Registered
    /\ ZipPath(download_dir, found[1]) \notin DOMAIN disk
    /\ ZipPath("mirror", found[2]) \in DOMAIN disk

\* the ids of a list of scenes
Ids(list) == {list[i]["id"] : i \in DOMAIN list}

\* the step merges the list found' into the collection
Merges == result'.op = "_merge_scenes" /\ calls' = calls + 1

\* C14: the collection only grows: the collection before a step is a prefix
\* of the collection after it; a merge appends the scenes of the merged list
\* whose ids were not in the collection, in the order of the list, so that a
\* list with no id of the collection adds all its scenes
C14_GrowsInOrder ==
    [][/\ Len(scenes') >= Len(scenes)
       /\ SubSeq(scenes', 1, Len(scenes)) = scenes
       /\ Merges
          => LET New(scene) == scene["id"] \notin Ids(scenes)
             IN  /\ SubSeq(scenes', Len(scenes) + 1, Len(scenes')) = SelectSeq(found', New)
                 /\ (Ids(found') \cap Ids(scenes) = {})
                    => Len(scenes') = Len(scenes) + Len(found')]_vars

\* 80 scenes were merged into the empty collection and then 20 scenes, 5 of
\* them with ids of the 80: the collection has 95 scenes
C14_Witness ==
    /\ calls = 2 /\ result.op = "_merge_scenes"
    /\ Len(scenes) = 95
    /\ Len(found) = 20 /\ Cardinality(Ids(found)) = 20
    /\ SubSeq(scenes, 1, 80) = Run(1, 80)
    /\ Cardinality(Ids(found) \cap Ids(SubSeq(scenes, 1, 80))) = 5

\* C15: a merge of a list whose ids are all in the collection, such as the
\* list that was merged in the step before, leaves the collection as it is
C15_MergeIdempotent ==
    [][Merges
       => /\ (Ids(found') \subseteq Ids(scenes)) => scenes' = scenes
          /\ (found' = found /\ result.op = "_merge_scenes") => scenes' = scenes]_vars

\* the list with another scene under the id 1 was merged after the collection
\* held the id 1: the scene stored first is still the one in the collection
C15_Witness ==
    /\ calls = 2 /\ result.op = "_merge_scenes"
    /\ found = <<SceneOf(1, Polygon("fp_tile"))>>
    /\ scenes = <<SceneOf(1, Polygon("fp_wide")), SceneOf(2, Polygon("fp_tile"))>>

\* C16: no step of the session changes the scenes that get_scenes returns
\* in another instance, or the directories the existing-file filter of
\* another instance looks into
C16_OwnedByOneInstance ==
    [][PeerGetScenes' = PeerGetScenes /\ PeerFilterDirs' = PeerFilterDirs]_vars

\* C17: set_geometries raises for a list with an invalid geometry at any
\* position, and search has issued no request when an invalid geometry ends it
C17_InvalidGeometryBeforeRequests ==
    /\ (pc = "done" /\ result.op = "set_geometries" /\ GBad \in Range(geometries))
       => result.kind = "raised"
    /\ (result.op = "search" /\ lastResp = "invalid geometry") => requests = <<>>

\* the step is the call search(platform, mo, dir, dates) for some mo and dir
Searches(platform, dates) ==
    \E mo \in {<<1, 1000>>, <<1, 2>>}, dir \in {None, "archive"} :
        search(platform, mo, dir, dates)

\* the step is a call of search
SearchBegins == pc = "idle" /\ (pc' = "search" \/ result'.op = "search")

\* the call has ended with an error and without a request
Rejected == pc' = "done" /\ result'.kind = "raised" /\ requests' = <<>>

EndWithoutStart(dates) == dates.start_date = None /\ dates.end_date # None
StartWithoutEnd(dates) == dates.start_date # None /\ dates.end_date = None
WithoutDates(dates) == dates.start_date = None /\ dates.end_date = None

\* C18 as stated: search rejects an unknown platform, an end date without a
\* start date and an unknown date field before any request, and accepts a
\* start date without an end date
C18_RejectsBeforeRequests ==
    [][SearchBegins => \A platform \in {"S1A*", "S9Z*"}, dates \in DateArgs :
          Searches(platform, dates)
          => /\ (\/ platform \notin Platforms
                 \/ EndWithoutStart(dates)
                 \/ dates.date_type \notin DateFields) => Rejected
             /\ (/\ platform \in Platforms
                 /\ StartWithoutEnd(dates)
                 /\ DateParses(dates.start_date)
                 /\ dates.date_type \in DateFields) => result'.kind # "raised"]_vars

\* C18: search rejects an unknown platform, an end date without a start date
\* and, when a date is given, an unknown date field before any request; it
\* accepts a start date without an end date, and any date field when no date
\* is given
C18_RejectsWhenDatesGiven ==
    [][SearchBegins => \A platform \in {"S1A*", "S9Z*"}, dates \in DateArgs :
          Searches(platform, dates)
          => /\ (\/ platform \notin Platforms
                 \/ EndWithoutStart(dates)
                 \/ (dates.date_type \notin DateFields /\ ~WithoutDates(dates))) => Rejected
             /\ (/\ platform \in Platforms
                 /\ StartWithoutEnd(dates)
                 /\ DateParses(dates.start_date)
                 /\ dates.date_type \in DateFields) => result'.kind # "raised"
             /\ (platform \in Platforms /\ WithoutDates(dates)) => result'.kind # "raised"]_vars

\* search was rejected for its arguments, with geometries set and no request
C18_Witness ==
    /\ pc = "done" /\ result.op = "search" /\ result.kind = "raised"
    /\ result.exc = "Exception"
    /\ geometries # <<>> /\ lastResp = None /\ requests = <<>>

\* C19: a streamed file whose archive test raises an error is deleted, its
\* path is appended to 'failed' only, and the loop goes on with the next scene
C19_CheckFailureIsCorruption ==
    [][(pc = "download" /\ phase = "verifying"
        /\ disk[CurrentPath].size > minsize
        /\ disk[CurrentPath].zip \notin {"good", "corrupt"})
       => /\ CurrentPath \notin DOMAIN disk'
          /\ downloaded_failed' = Append(downloaded_failed, CurrentPath)
          /\ downloaded' = downloaded
          /\ LoopGoesOn]_vars

\* the outcomes that the step which finishes the current scene shows
OutcomesOfStep ==
    {o \in {"success", "failed and removed", "too small", "connection error", "no length header"} :
        CASE o = "success" ->
                 /\ phase = "verifying"
                 /\ downloaded' = Append(downloaded, CurrentPath)
                 /\ downloaded_failed' = downloaded_failed
                 /\ CurrentPath \in DOMAIN disk'
          [] o = "failed and removed" ->
                 /\ phase = "verifying"
                 /\ downloaded_failed' = Append(downloaded_failed, CurrentPath)
                 /\ downloaded' = downloaded
                 /\ CurrentPath \notin DOMAIN disk'
          [] o = "too small" ->
                 /\ phase = "requesting" /\ lastResp' = "length" /\ size' < TooSmall
                 /\ downloaded' = downloaded /\ downloaded_failed' = downloaded_failed
          [] o = "connection error" ->
                 /\ phase = "requesting" /\ lastResp' = "connection"
                 /\ downloaded' = downloaded /\ downloaded_failed' = downloaded_failed
          [] OTHER ->
                 /\ phase = "requesting" /\ lastResp' = "noheader"
                 /\ downloaded' = downloaded /\ downloaded_failed' = downloaded_failed}

\* C20: unless the user interrupts it, a step of download_all either goes on
\* with the scene it is at or finishes it with exactly one of the five
\* outcomes, after which the loop is at the next scene or has returned the
\* summary; the scenes are requested once each, in the order of the collection
C20_EverySceneOneOutcome ==
    [][pc = "download"
       => /\ attempted' = [i \in 1..scene_i |-> scenes[i]["url"]]
          /\ \/ pc' = "exited"
             \/ pc' = "download" /\ scene_i' = scene_i /\ phase' # phase
             \/ LoopGoesOn /\ Cardinality(OutcomesOfStep) = 1]_vars

\* C21: a step leaves every scene of the collection where and as it is; a
\* scene that enters the collection does so in search, with the overlap of the
\* geometry that search is at as its annotation
C21_StoredScenesFrozen ==
    [][/\ \A i \in DOMAIN scenes : i \in DOMAIN scenes' /\ scenes'[i] = scenes[i]
       /\ \A i \in DOMAIN scenes' \ DOMAIN scenes :
             /\ pc = "search"
             /\ LET a == scenes'[i]["_script_overlap"]
                IN  a[2] > 0 /\ a[1] * AoiArea = IntersectionArea(scenes'[i]) * 100 * a[2]]_vars

\* search has returned after its second geometry, whose page listed a scene
\* again that the first geometry had admitted: the scene has the annotation of
\* the first geometry, which is not its overlap with the second
C21_Witness ==
    /\ pc = "done" /\ result.op = "search" /\ result.kind = "returned"
    /\ Len(geometries) = 2 /\ geom_i = 3 /\ scenes # <<>>
    /\ \E r \in Range(requests) : r.geom = 2 /\ r.got > 0
    /\ \E i \in DOMAIN scenes :
          LET a == scenes[i]["_script_overlap"]
              first == geometries[1]
              second == geometries[2]
          IN  /\ ~intersect(second, scenes[i]["footprint"]).none
              /\ a[1] * getArea(first)
                   = SumIntersection(first.parts, scenes[i]["footprint"].parts) * 100 * a[2]
              /\ a[1] * getArea(second)
                   # SumIntersection(second.parts, scenes[i]["footprint"].parts) * 100 * a[2]

\* C22: however download_all has ended, each archive on disk is one that this
\* run or an earlier one verified, and is a valid archive, so that
\* _filter_existing finds no partly written or unverified archive
C22_NoHalfDownloads ==
    (result.op = "download_all" /\ pc \in {"done", "exited"})
    => \A path \in DOMAIN disk :
          /\ path \in earlier.verified \cup Range(downloaded)
          /\ _is_valid(disk[path]) = "valid"

DownloadBegins == pc = "idle" /\ (pc' = "download" \/ result'.op = "download_all")

\* C24: no step of download_all, from its call to its end, changes the scene
\* collection, the geometries, the data directories or the download directory
\* of the session
C24_DownloadKeepsSession ==
    [][(DownloadBegins \/ pc = "download")
       => /\ scenes' = scenes
          /\ geometries' = geometries
          /\ data_dirs' = data_dirs
          /\ download_dir' = download_dir]_vars

\* download_all has returned after it was called with a download_dir that is
\* not the one of the session, requested the scenes and verified an archive
C24_Witness ==
    /\ pc = "done" /\ result.op = "download_all" /\ result.kind = "returned"
    /\ dl_dir # download_dir
    /\ Len(attempted) = Len(scenes) /\ scenes # <<>>
    /\ Len(result.value.success) > 0

\* C25: a call of search that ends with the error of an unknown platform, of
\* an end date without a start date or of an unknown date field leaves the
\* scene collection, the geometries, the data directories, the download
\* directory and the directories on disk as they were
C25_RejectedSearchKeepsSession ==
    [][(SearchBegins /\ result'.kind = "raised" /\ result'.exc = "Exception")
       => /\ scenes' = scenes
          /\ geometries' = geometries
          /\ data_dirs' = data_dirs
          /\ download_dir' = download_dir
          /\ folders' = folders]_vars

\* C10: search never ends with the exception of a malformed 2xx response
C10_MalformedNeverAborts ==
    ~(result.op = "search" /\ result.kind = "raised" /\ lastResp \in MalformedKinds)

====
